---- MODULE Spec2Model ----
(***************************************************************************)
(* Model of emva1288.camera.camera.Camera: the constructor, the three      *)
(* mutable controls (exposure, K, blackoffset), grab and the statistic     *)
(* chain with its inverse get_radiance_for.                                *)
(*                                                                         *)
(* Real numbers are exact rationals [n |-> numerator, d |-> denominator]   *)
(* kept in lowest terms with d > 0.  Python's None is the record with a    *)
(* zero denominator, which no rational has.                                *)
(***************************************************************************)
EXTENDS Integers, Sequences, FiniteSets

(* ------------------------------------------------------------------ *)
(* Bounds of the model                                                 *)
(* ------------------------------------------------------------------ *)

\* largest K_steps / blackoffset_steps handed to the constructor
MaxSteps == 3

\* largest number of pixels (width * height) of a grid
MaxPixels == 2

(* ------------------------------------------------------------------ *)
(* Exact rational arithmetic                                           *)
(* ------------------------------------------------------------------ *)

Abs(x) == IF x < 0 THEN -x ELSE x

RECURSIVE GCD(_, _)
GCD(a, b) == IF b = 0 THEN a ELSE GCD(b, a % b)

\* the rational n/d in lowest terms, d # 0
Frac(n, d) ==
    LET s == IF d < 0 THEN -1 ELSE 1
        g == GCD(Abs(n), Abs(d))
    IN  [n |-> (s * n) \div g, d |-> (s * d) \div g]

Int2R(i) == [n |-> i, d |-> 1]

None == [n |-> 0, d |-> 0]

RAdd(a, b) == Frac(a.n * b.d + b.n * a.d, a.d * b.d)

RNeg(a) == [n |-> -a.n, d |-> a.d]

RSub(a, b) == RAdd(a, RNeg(b))

\* a * b, reducing crosswise before multiplying
RMul(a, b) ==
    LET g1 == GCD(Abs(a.n), b.d)
        g2 == GCD(Abs(b.n), a.d)
    IN  [n |-> (a.n \div g1) * (b.n \div g2), d |-> (a.d \div g2) * (b.d \div g1)]

\* a / b for b # 0
RDiv(a, b) ==
    RMul(a, IF b.n < 0 THEN [n |-> -b.d, d |-> -b.n] ELSE [n |-> b.d, d |-> b.n])

RLe(a, b) == a.n * b.d <= b.n * a.d

RLt(a, b) == a.n * b.d < b.n * a.d

RAbs(a) == [n |-> Abs(a.n), d |-> a.d]

\* 2 ** x for a whole x, as Python computes it on floats
Pow2(x) == IF x.n >= 0 THEN Int2R(2 ^ x.n) ELSE Frac(1, 2 ^ (-x.n))

\* np.rint: round to the nearest integer, halves to the even neighbour
rint(a) ==
    LET f == a.n \div a.d
        r == a.n - f * a.d
    IN  IF 2 * r < a.d THEN f
        ELSE IF 2 * r > a.d THEN f + 1
        ELSE IF f % 2 = 0 THEN f ELSE f + 1

\* np.clip on one value
clip(x, lo, hi) == IF x < lo THEN lo ELSE IF x > hi THEN hi ELSE x

(* ------------------------------------------------------------------ *)
(* Values the calls are made with                                      *)
(* ------------------------------------------------------------------ *)

\* 10 ** 9, nanoseconds per second
NsPerSecond == 1000000000

\* what a failing call leaves in place of a value
Raise == [n |-> 1, d |-> 0]

\* a division by a zero float: inf or nan, no exception
NonFinite == [n |-> -1, d |-> 0]

IsNumber(x) == x.d # 0

Pixels(h, w) == (1 .. h) \X (1 .. w)

Range(f) == {f[x] : x \in DOMAIN f}

Shapes == {hw \in (1 .. MaxPixels) \X (1 .. MaxPixels) : hw[1] * hw[2] <= MaxPixels}

\* no map handed to the constructor
NoMap == [kind |-> "None", data |-> <<>>]

ZeroMap(kind, h, w) == [kind |-> kind, data |-> [p \in Pixels(h, w) |-> Int2R(0)]]

\* a dsnu map that differs from pixel to pixel: 1, 2, ... electrons
DsnuRamp(kind, h, w) ==
    [kind |-> kind, data |-> [p \in Pixels(h, w) |-> Int2R(p[1] + p[2] - 1)]]

\* a prnu map that differs from pixel to pixel: 150 %, 200 %, ...
PrnuRamp(kind, h, w) ==
    [kind |-> kind, data |-> [p \in Pixels(h, w) |-> Frac(p[1] + p[2] + 1, 2)]]

MapKinds == {"ndarray", "list"}

DsnuArgs(h, w) ==
    {ZeroMap(k, h, w) : k \in MapKinds} \cup {DsnuRamp(k, h, w) : k \in MapKinds}

PrnuArgs(h, w) ==
    {ZeroMap(k, h, w) : k \in MapKinds} \cup {PrnuRamp(k, h, w) : k \in MapKinds}

ExposureVals == {Int2R(125000000), Int2R(500000000)}

GainInputs == {Int2R(-1), Frac(5, 4), Frac(7, 4), Int2R(100)}

OffsetInputs == {Int2R(-3), Int2R(4), Int2R(20)}

Radiances == {Int2R(0), Int2R(2)}

\* what one draw of np.random.normal can be: below 0, a half, above every img_max
SampleVals == {Frac(-7, 2), Frac(5, 2), Int2R(2000)}

MeanArgs == {None, Int2R(0), Int2R(100)}

ExposureArgs == {None, Int2R(0), Int2R(125000000)}

\* what routines.qe(wavelength) may return
DefaultQeVals == {Frac(1, 4), Frac(3, 4)}

\* the constructor's arguments all three families start from
BaseArgs ==
    [f_number |-> Int2R(8), pixel_area |-> Int2R(25), bit_depth |-> 8,
     width |-> 1, height |-> 1,
     temperature |-> Int2R(22), temperature_ref |-> Int2R(30),
     temperature_doubling |-> Int2R(8),
     wavelength |-> Int2R(525), qe |-> Frac(1, 2),
     exposure |-> Int2R(500000000),
     exposure_min |-> Int2R(10000), exposure_max |-> Int2R(500000000),
     K |-> Int2R(1), K_min |-> Int2R(1), K_max |-> Int2R(2), K_steps |-> 2,
     blackoffset |-> Int2R(0), blackoffset_min |-> Int2R(0),
     blackoffset_max |-> Int2R(16), blackoffset_steps |-> 2,
     dark_current_ref |-> Int2R(0), dark_signal_0 |-> Int2R(0),
     sigma2_dark_0 |-> Int2R(10),
     dsnu |-> NoMap, prnu |-> NoMap]

\* the gain and black-offset controls vary, one at a time
ControlArgs ==
    {[BaseArgs EXCEPT !.K = k, !.K_max = hi, !.K_steps = n] :
        k \in {Int2R(0), Frac(3, 2)}, hi \in {Int2R(1), Int2R(2)},
        n \in 0 .. MaxSteps}
    \cup
    {[BaseArgs EXCEPT !.blackoffset = b, !.blackoffset_max = hi, !.blackoffset_steps = n] :
        b \in {Int2R(-2), Int2R(9)}, hi \in {Int2R(0), Int2R(16)},
        n \in 0 .. MaxSteps}

\* the grid and the two fixed-pattern maps vary: no map, one map, both maps
MapArgs ==
    UNION {
        {[BaseArgs EXCEPT !.height = hw[1], !.width = hw[2]]}
        \cup {[BaseArgs EXCEPT !.height = hw[1], !.width = hw[2], !.dsnu = d] :
                d \in DsnuArgs(hw[1], hw[2])}
        \cup {[BaseArgs EXCEPT !.height = hw[1], !.width = hw[2], !.prnu = p] :
                p \in PrnuArgs(hw[1], hw[2])}
        \cup {[BaseArgs EXCEPT !.height = hw[1], !.width = hw[2],
                               !.dsnu = DsnuRamp(k, hw[1], hw[2]),
                               !.prnu = PrnuRamp(k, hw[1], hw[2])] : k \in MapKinds}
        : hw \in Shapes}

\* the parameters of the statistic chain vary
StatArgs ==
    {[BaseArgs EXCEPT !.temperature = t, !.qe = q,
                      !.dark_current_ref = dc, !.dark_signal_0 = d0] :
        t \in {Int2R(22), Int2R(30)},
        q \in {None, Int2R(0), Frac(1, 2)},
        dc \in {Int2R(0), Int2R(4)}, d0 \in {Int2R(0), Int2R(2)}}
    \cup {[BaseArgs EXCEPT !.bit_depth = 10]}

(* ------------------------------------------------------------------ *)
(* State                                                               *)
(* ------------------------------------------------------------------ *)

VARIABLES
    args,           \* the arguments the constructor is called with
    phase,          \* "new" before __init__, then "ready" or "failed"
    cam,            \* the attributes __init__ sets and nothing changes
    exposure,       \* self._exposure
    Ks,             \* self.__Ks
    K,              \* self._K
    blackoffsets,   \* self.__blackoffsets
    blackoffset,    \* self._blackoffset
    dsnu,           \* self._dsnu
    prnu,           \* self._prnu
    last            \* the last call: its name, arguments and what it returned;
                    \* of an exposure setter also the exposure it replaced (was)
                    \* and the mean digital values at that exposure (u_y_was)

vars == <<args, phase, cam, exposure, Ks, K, blackoffsets, blackoffset, dsnu, prnu, last>>

\* everything a Camera object holds
object == <<cam, exposure, Ks, K, blackoffsets, blackoffset, dsnu, prnu>>

NoCall ==
    [op |-> "none", a1 |-> None, a2 |-> None, sample |-> <<>>, out |-> None,
     frame |-> <<>>, u_y |-> None, s2_y |-> None, ud |-> None, conv |-> None,
     was |-> None, u_y_was |-> <<>>, raised |-> "no"]

InitWith(S) ==
    /\ args \in S
    /\ phase = "new"
    /\ cam = <<>>
    /\ exposure = None
    /\ Ks = <<>>
    /\ K = None
    /\ blackoffsets = <<>>
    /\ blackoffset = None
    /\ dsnu = <<>>
    /\ prnu = <<>>
    /\ last = NoCall

(* ------------------------------------------------------------------ *)
(* The routines module and numpy, as the camera uses them              *)
(* ------------------------------------------------------------------ *)

\* a linspace that divides by num - 1 without a case for num = 1, and raises there
linspace_no_single(start, stop, num) ==
    IF num = 1 THEN <<>>
    ELSE [i \in 1 .. num |->
            RAdd(start, RMul(Int2R(i - 1), RDiv(RSub(stop, start), Int2R(num - 1))))]

\* np.linspace(start, stop, num=num), end point included
linspace(start, stop, num) ==
    IF num = 1 THEN <<start>>
    ELSE [i \in 1 .. num |->
            RAdd(start, RMul(Int2R(i - 1), RDiv(RSub(stop, start), Int2R(num - 1))))]

\* the index of the first entry of array at the least distance from value
RECURSIVE argmin_from(_, _, _, _)
argmin_from(value, array, i, best) ==
    IF i > Len(array) THEN best
    ELSE argmin_from(value, array, i + 1,
            IF RLt(RAbs(RSub(array[i], value)), RAbs(RSub(array[best], value)))
            THEN i ELSE best)

\* routines.nearest_value: the candidate closest to value, the lower one of
\* two equally close; there is none to return in an empty array
nearest_value(value, array) ==
    IF Len(array) = 0 THEN Raise ELSE array[argmin_from(value, array, 1, 1)]

\* photons per unit of radiance: routines.get_photons is linear in the radiance
photons_per_radiance(exp, wavelength, pixel_area, f_number) ==
    RDiv(RMul(RDiv(exp, Int2R(NsPerSecond)), RMul(wavelength, pixel_area)),
         RMul(f_number, f_number))

\* routines.get_photons(exposure, wavelength, radiance, pixel_area, f_number)
routines_get_photons(exp, wavelength, radiance, pixel_area, f_number) ==
    RMul(radiance, photons_per_radiance(exp, wavelength, pixel_area, f_number))

\* routines.get_radiance(exposure, wavelength, photons, pixel_area, f_number),
\* the inverse of routines.get_photons
routines_get_radiance(exp, wavelength, photons, pixel_area, f_number) ==
    RDiv(photons, photons_per_radiance(exp, wavelength, pixel_area, f_number))

(* ------------------------------------------------------------------ *)
(* Camera: properties and the statistic chain                          *)
(* ------------------------------------------------------------------ *)

\* Python's truth value of a scalar argument: None and 0 are false
truthy(x) == IsNumber(x) /\ x.n # 0

\* the truth value `m or default` asks a map argument for
map_truth(m) ==
    CASE m.kind = "None" -> "false"
      [] m.kind = "list" -> IF DOMAIN m.data = {} THEN "false" ELSE "true"
      [] m.kind = "ndarray" ->
            IF Cardinality(DOMAIN m.data) > 1 THEN "raise"
            ELSE IF \E p \in DOMAIN m.data : m.data[p].n # 0 THEN "true" ELSE "false"

\* m or default
map_or(m, default) == IF map_truth(m) = "true" THEN m.data ELSE default

\* a K setter that stores what it is given
K_setter_raw(value, candidates) == value

\* a K setter that takes the first candidate above value (the last if none is)
K_setter_above(value, candidates) ==
    LET above == {i \in 1 .. Len(candidates) : RLt(value, candidates[i])}
    IN  IF Len(candidates) = 0 THEN Raise
        ELSE IF above = {} THEN candidates[Len(candidates)]
        ELSE candidates[CHOOSE i \in above : \A j \in above : i <= j]

\* the K setter: what self._K becomes
K_setter(value, candidates) == nearest_value(value, candidates)

\* the blackoffset setter: what self._blackoffset becomes
blackoffset_setter(value, candidates) == nearest_value(value, candidates)

\* Camera.get_photons(radiance, exposure=None)
get_photons(radiance, exp) ==
    routines_get_photons(IF exp = None THEN exposure ELSE exp,
                         cam.wavelength, radiance, cam.pixel_area, cam.f_number)

\* Camera._u_i: the dark current
u_i ==
    RMul(cam.dark_current_ref,
         Pow2(RDiv(RSub(cam.temperature, cam.temperature_ref), cam.temperature_doubling)))

\* Camera._u_d: mean number of electrons without light
u_d == RAdd(RDiv(RMul(u_i, exposure), Int2R(NsPerSecond)), cam.dark_signal_0)

\* Camera._u_e: mean number of electrons from the light
u_e(radiance) == RMul(cam.qe, get_photons(radiance, None))

\* a mean digital value with the light electrons subtracted
u_y_minus(radiance) == RMul(K, RSub(u_d, u_e(radiance)))

\* Camera._u_y: mean digital value
u_y(radiance) == RMul(K, RAdd(u_d, u_e(radiance)))

\* Camera._s2_e
s2_e(radiance) == u_e(radiance)

\* Camera._s2_q
s2_q == Frac(1, 12)

\* Camera._s2_d
s2_d == RAdd(cam.sigma2_dark_0, RDiv(RMul(u_i, exposure), Int2R(NsPerSecond)))

\* Camera._s2_y: variance of the digital signal
s2_y(radiance) == RAdd(RMul(RMul(K, K), RAdd(s2_d, s2_e(radiance))), s2_q)

(* ------------------------------------------------------------------ *)
(* Camera: the calls                                                   *)
(* ------------------------------------------------------------------ *)

\* Camera.__init__
Camera_init ==
    /\ phase = "new"
    /\ LET ks == linspace(args.K_min, args.K_max, args.K_steps)
           k == K_setter(args.K, ks)
           bos == linspace(args.blackoffset_min, args.blackoffset_max,
                           args.blackoffset_steps)
           bo == blackoffset_setter(args.blackoffset, bos)
           site == IF k = Raise THEN "K"
                   ELSE IF bo = Raise THEN "blackoffset"
                   ELSE IF map_truth(args.dsnu) = "raise" THEN "dsnu"
                   ELSE IF map_truth(args.prnu) = "raise" THEN "prnu"
                   ELSE "no"
       IN  \E q \in (IF args.qe = None THEN DefaultQeVals ELSE {args.qe}) :
             IF site = "no"
             THEN /\ phase' = "ready"
                  /\ cam' = [f_number |-> args.f_number,
                             pixel_area |-> args.pixel_area,
                             bit_depth |-> args.bit_depth,
                             img_max |-> 2 ^ args.bit_depth - 1,
                             width |-> args.width,
                             height |-> args.height,
                             temperature |-> args.temperature,
                             temperature_ref |-> args.temperature_ref,
                             temperature_doubling |-> args.temperature_doubling,
                             wavelength |-> args.wavelength,
                             qe |-> q,
                             dark_current_ref |-> args.dark_current_ref,
                             dark_signal_0 |-> args.dark_signal_0,
                             sigma2_dark_0 |-> args.sigma2_dark_0,
                             exposure_min |-> args.exposure_min,
                             exposure_max |-> args.exposure_max]
                  /\ exposure' = args.exposure
                  /\ Ks' = ks
                  /\ K' = k
                  /\ blackoffsets' = bos
                  /\ blackoffset' = bo
                  /\ dsnu' = map_or(args.dsnu,
                                    [p \in Pixels(args.height, args.width) |-> Int2R(0)])
                  /\ prnu' = map_or(args.prnu,
                                    [p \in Pixels(args.height, args.width) |-> Int2R(1)])
                  /\ last' = [NoCall EXCEPT !.op = "__init__"]
             ELSE /\ phase' = "failed"
                  /\ last' = [NoCall EXCEPT !.op = "__init__", !.raised = site]
                  /\ UNCHANGED object
    /\ UNCHANGED args

\* the exposure setter
exposure_set(value) ==
    /\ phase = "ready"
    /\ exposure' = value
    /\ last' = [NoCall EXCEPT !.op = "exposure", !.a1 = value, !.was = exposure,
                              !.u_y_was = [r \in Radiances |-> u_y(r)]]
    /\ UNCHANGED <<args, phase, cam, Ks, K, blackoffsets, blackoffset, dsnu, prnu>>

\* the K setter
K_set(value) ==
    /\ phase = "ready"
    /\ LET k == K_setter(value, Ks)
       IN  IF k = Raise
           THEN /\ last' = [NoCall EXCEPT !.op = "K", !.a1 = value, !.raised = "K"]
                /\ K' = K
           ELSE /\ last' = [NoCall EXCEPT !.op = "K", !.a1 = value]
                /\ K' = k
    /\ UNCHANGED <<args, phase, cam, exposure, Ks, blackoffsets, blackoffset, dsnu, prnu>>

\* the blackoffset setter
blackoffset_set(value) ==
    /\ phase = "ready"
    /\ LET bo == blackoffset_setter(value, blackoffsets)
       IN  IF bo = Raise
           THEN /\ last' = [NoCall EXCEPT !.op = "blackoffset", !.a1 = value,
                                          !.raised = "blackoffset"]
                /\ blackoffset' = blackoffset
           ELSE /\ last' = [NoCall EXCEPT !.op = "blackoffset", !.a1 = value]
                /\ blackoffset' = bo
    /\ UNCHANGED <<args, phase, cam, exposure, Ks, K, blackoffsets, dsnu, prnu>>

\* a frame clipped before the black offset is added
grab_frame_clip_early(sample) ==
    LET img1 == [p \in DOMAIN sample |-> RMul(sample[p], prnu[p])]
        img2 == [p \in DOMAIN sample |-> RAdd(img1[p], RMul(K, dsnu[p]))]
        img3 == [p \in DOMAIN sample |-> clip(rint(img2[p]), 0, cam.img_max)]
    IN  [p \in DOMAIN sample |-> rint(RAdd(Int2R(img3[p]), blackoffset))]

\* a frame whose prnu factor is applied after dsnu is added
grab_frame_prnu_late(sample) ==
    LET img1 == [p \in DOMAIN sample |-> RAdd(sample[p], RMul(K, dsnu[p]))]
        img2 == [p \in DOMAIN sample |-> RMul(img1[p], prnu[p])]
        img3 == [p \in DOMAIN sample |-> RAdd(img2[p], blackoffset)]
    IN  [p \in DOMAIN sample |-> clip(rint(img3[p]), 0, cam.img_max)]

\* the frame Camera.grab makes of the drawn samples
grab_frame(sample) ==
    LET clipping_point == cam.img_max
        \* img *= self._prnu
        img1 == [p \in DOMAIN sample |-> RMul(sample[p], prnu[p])]
        \* img += self.K * self._dsnu
        img2 == [p \in DOMAIN sample |-> RAdd(img1[p], RMul(K, dsnu[p]))]
        \* img += self.blackoffset
        img3 == [p \in DOMAIN sample |-> RAdd(img2[p], blackoffset)]
        \* np.rint(img, img)
        img4 == [p \in DOMAIN sample |-> rint(img3[p])]
        \* np.clip(img, 0, clipping_point, img); the cast to uint64 is exact there
    IN  [p \in DOMAIN sample |-> clip(img4[p], 0, clipping_point)]

\* a grab that multiplies the stored prnu map in place (self._prnu *= img)
grab_inplace(radiance, sample) ==
    /\ phase = "ready"
    /\ last' = [NoCall EXCEPT !.op = "grab", !.a1 = radiance, !.sample = sample,
                              !.u_y = u_y(radiance), !.s2_y = s2_y(radiance),
                              !.frame = grab_frame(sample)]
    /\ prnu' = [p \in DOMAIN sample |-> RMul(prnu[p], sample[p])]
    /\ UNCHANGED <<args, phase, cam, exposure, Ks, K, blackoffsets, blackoffset, dsnu>>

\* Camera.grab(radiance), np.random.normal drawing sample
grab(radiance, sample) ==
    /\ phase = "ready"
    /\ last' = [NoCall EXCEPT !.op = "grab", !.a1 = radiance, !.sample = sample,
                              !.u_y = u_y(radiance), !.s2_y = s2_y(radiance),
                              !.frame = grab_frame(sample)]
    /\ UNCHANGED <<args, phase, cam, exposure, Ks, K, blackoffsets, blackoffset, dsnu, prnu>>

\* Camera.get_radiance_for(mean, exposure)
get_radiance_for(mean, exp) ==
    /\ phase = "ready"
    /\ LET m == IF ~truthy(mean) THEN Int2R(cam.img_max) ELSE mean
           e == IF ~truthy(exp) THEN exposure ELSE exp
           ud == u_d
           ue == RSub(RDiv(m, K), ud)
           up == IF cam.qe.n = 0 THEN NonFinite ELSE RDiv(ue, cam.qe)
           radiance == IF up = NonFinite THEN NonFinite
                       ELSE routines_get_radiance(e, cam.wavelength, up,
                                                  cam.pixel_area, cam.f_number)
       IN  last' = [NoCall EXCEPT !.op = "get_radiance_for", !.a1 = mean, !.a2 = exp,
                                  !.ud = ud, !.conv = e, !.out = radiance]
    /\ UNCHANGED <<args, phase, cam, exposure, Ks, K, blackoffsets, blackoffset, dsnu, prnu>>

Next ==
    \/ Camera_init
    \/ /\ phase = "ready"
       /\ \E value \in ExposureVals : exposure_set(value)
    \/ /\ phase = "ready"
       /\ \E value \in GainInputs \cup {K} : K_set(value)
    \/ /\ phase = "ready"
       /\ \E value \in OffsetInputs \cup {blackoffset} : blackoffset_set(value)
    \/ /\ phase = "ready"
       /\ \E radiance \in Radiances :
            \E sample \in [Pixels(cam.height, cam.width) -> SampleVals] :
               grab(radiance, sample)
    \/ /\ phase = "ready"
       /\ \E mean \in MeanArgs : \E exp \in ExposureArgs : get_radiance_for(mean, exp)

\* cameras that differ in the gain and black-offset controls
Spec == InitWith(ControlArgs) /\ [][Next]_vars

\* cameras that differ in the grid and the fixed-pattern maps
SpecMaps == InitWith(MapArgs) /\ [][Next]_vars

\* cameras that differ in the parameters of the statistic chain
SpecStats == InitWith(StatArgs) /\ [][Next]_vars

(* ------------------------------------------------------------------ *)
(* Control discretization (checked under Spec)                         *)
(* ------------------------------------------------------------------ *)

\* C1: whatever the constructor and the setters were given, a constructed
\* camera's K is one of Ks and its blackoffset one of blackoffsets: never
\* the raw input, never the None the constructor starts from.
C1_SnappedToCandidates ==
    phase = "ready" =>
        /\ K \in Range(Ks)
        /\ blackoffset \in Range(blackoffsets)

\* the gain was set to a value above K_max and K_max is what K holds
C1_Witness ==
    /\ phase = "ready"
    /\ last.op = "K"
    /\ RLt(args.K_max, last.a1)
    /\ K = args.K_max
    /\ Len(Ks) > 1

DegenerateK ==
    args.K_steps >= 1 /\ (args.K_steps = 1 \/ args.K_min = args.K_max)

DegenerateOffset ==
    /\ args.blackoffset_steps >= 1
    /\ (args.blackoffset_steps = 1 \/ args.blackoffset_min = args.blackoffset_max)

\* C7: with a single candidate (one step, or K_min = K_max) neither the
\* constructor nor a later K setter raises, and K is that candidate; the
\* same for the black offset.
C7_DegenerateCandidates ==
    phase # "new" =>
        /\ DegenerateK =>
             /\ last.raised # "K"
             /\ phase = "ready"
             /\ K = args.K_min
        /\ DegenerateOffset =>
             /\ last.raised # "blackoffset"
             /\ phase = "ready"
             /\ blackoffset = args.blackoffset_min

\* one step between two different ends, and the gain was set far above both
C7_Witness ==
    /\ phase = "ready"
    /\ args.K_steps = 1
    /\ args.K_min # args.K_max
    /\ last.op = "K"
    /\ last.a1 = Int2R(100)
    /\ K = args.K_min

\* C9: setting K to the value it holds leaves it as it is, and so does
\* setting blackoffset to the value it holds.
C9_SnapIdempotent ==
    [][/\ (last'.op = "K" /\ last'.a1 = K) => K' = K
       /\ (last'.op = "blackoffset" /\ last'.a1 = blackoffset) => blackoffset' = blackoffset
      ]_vars

\* the gain was set to the candidate it holds, one strictly between the ends
C9_Witness ==
    /\ phase = "ready"
    /\ last.op = "K"
    /\ last.a1 = K
    /\ RLt(args.K_min, K)
    /\ RLt(K, args.K_max)

(* ------------------------------------------------------------------ *)
(* Image synthesis and the fixed-pattern maps (checked under SpecMaps) *)
(* ------------------------------------------------------------------ *)

\* C2: the frame grab returns has height rows and width columns, and every
\* pixel is an integer from 0 to img_max, whatever was drawn.
C2_FrameInRange ==
    last.op = "grab" =>
        /\ DOMAIN last.frame = Pixels(cam.height, cam.width)
        /\ \A p \in DOMAIN last.frame : last.frame[p] \in 0 .. cam.img_max

\* a frame of two pixels, one drawn below 0 and one above img_max
C2_Witness ==
    /\ last.op = "grab"
    /\ \E p, q \in DOMAIN last.frame :
          /\ RLt(last.sample[p], Int2R(0)) /\ last.frame[p] = 0
          /\ RLt(Int2R(cam.img_max), last.sample[q]) /\ last.frame[q] = cam.img_max

\* the value the claim gives a pixel drawn as s under gain factor g and dark offset d
ClaimedPixel(s, g, d) ==
    LET real == RAdd(RAdd(RMul(s, g), RMul(K, d)), blackoffset)
        rounded == rint(real)
    IN  IF rounded < 0 THEN 0 ELSE IF rounded > cam.img_max THEN cam.img_max ELSE rounded

\* C10: each pixel of the frame is clip(round(s * prnu + K * dsnu + blackoffset),
\* 0, img_max) for the sample s drawn for it.
C10_PixelFormula ==
    last.op = "grab" =>
        \A p \in Pixels(cam.height, cam.width) :
            last.frame[p] = ClaimedPixel(last.sample[p], prnu[p], dsnu[p])

\* a pixel with its own prnu and dsnu, a black offset, and a value that is not clipped
C10_Witness ==
    /\ last.op = "grab"
    /\ blackoffset # Int2R(0)
    /\ K # Int2R(1)
    /\ \E p \in DOMAIN last.frame :
          /\ prnu[p] # Int2R(1)
          /\ dsnu[p] # Int2R(0)
          /\ last.frame[p] \in 1 .. cam.img_max - 1

\* C5: a grab leaves the camera as it was: exposure, K, blackoffset, the
\* candidates, the configuration and both maps.
C5_GrabChangesNothing ==
    [][last'.op = "grab" => UNCHANGED <<object, args, phase>>]_vars

\* a grab on a camera holding maps of its own
C5_Witness ==
    /\ last.op = "grab"
    /\ \E p \in DOMAIN prnu : prnu[p] # Int2R(1)
    /\ \E p \in DOMAIN dsnu : dsnu[p] # Int2R(0)
    /\ \E p \in DOMAIN last.sample : last.sample[p] = Frac(5, 2)

\* C6: a map handed to the constructor is the map the camera holds, an
\* all-zero one too, and the constructor does not fail on it.
C6_SuppliedMapKept ==
    phase # "new" =>
        /\ args.dsnu # NoMap =>
             /\ last.raised # "dsnu"
             /\ phase = "ready" => dsnu = args.dsnu.data
        /\ args.prnu # NoMap =>
             /\ last.raised # "prnu"
             /\ phase = "ready" => prnu = args.prnu.data

(* ------------------------------------------------------------------ *)
(* The statistic chain and its inverse (checked under SpecStats)       *)
(* ------------------------------------------------------------------ *)

\* C3: asked at the camera's own exposure for a mean between K * u_d and
\* img_max (0 included when there is no dark signal), get_radiance_for
\* returns a radiance whose mean digital value is that mean.
C3_RoundTrip ==
    (/\ last.op = "get_radiance_for"
     /\ cam.qe.n # 0
     /\ last.a2 \in {None, exposure}
     /\ IsNumber(last.a1)
     /\ RLe(RMul(K, u_d), last.a1)
     /\ RLe(last.a1, Int2R(cam.img_max)))
    => /\ IsNumber(last.out)
       /\ u_y(last.out) = last.a1

\* C4: asked at an exposure other than the camera's, get_radiance_for takes
\* the dark electrons at the exposure it was given, and converts to a
\* radiance at that exposure.
C4_DarkAtGivenExposure ==
    (/\ last.op = "get_radiance_for"
     /\ truthy(last.a2)
     /\ last.a2 # exposure)
    => /\ last.ud = RAdd(RDiv(RMul(u_i, last.a2), Int2R(NsPerSecond)), cam.dark_signal_0)
       /\ last.conv = last.a2

ProbeRadiances == {Int2R(0), Frac(1, 2), Int2R(3)}

MonotoneInRadiance ==
    \A r1, r2 \in ProbeRadiances : RLe(r1, r2) => RLe(u_y(r1), u_y(r2))

\* C8: the mean digital value does not fall when the radiance grows, and
\* does not fall when the exposure setter raises the exposure.
C8_MeanMonotone ==
    phase = "ready" =>
        /\ MonotoneInRadiance
        /\ (last.op = "exposure" /\ RLe(last.was, exposure)) =>
              \A r \in Radiances : RLe(last.u_y_was[r], u_y(r))

\* the exposure was set on a camera with dark current and light response
C8_Witness ==
    /\ last.op = "exposure"
    /\ RLt(last.was, exposure)
    /\ RLt(Int2R(0), u_i)
    /\ RLt(last.u_y_was[Int2R(2)], u_y(Int2R(2)))
    /\ RLt(u_y(Int2R(0)), u_y(Int2R(3)))

====
